---------------------------- MODULE Spec2Model ----------------------------
(***************************************************************************)
(* Client-side session state of the quiz front end: the session hook       *)
(* useUser (lib/useUser.tsx) and the Login page (pages/auth/login.tsx).    *)
(*                                                                         *)
(* The model follows one lifetime of the Login component in one execution  *)
(* environment (a browser, or a pre-render without window).  The ambient   *)
(* stores are document.cookie and the local-storage entry                  *)
(* "accessTokenPayload".  Login's session hook (login.tsx line 6, 15) is   *)
(* modelled by the hook of lib/useUser.tsx.                                *)
(*                                                                         *)
(* JSON text is a sequence of tokens, so that JSON.stringify and           *)
(* JSON.parse are two different computations.                              *)
(***************************************************************************)
EXTENDS Integers, Sequences, FiniteSets, TLC

VARIABLES
    window,     \* TRUE iff `typeof window !== "undefined"`
    cookie,     \* document.cookie: a sequence of <<name, value>> pairs
    storage,    \* localStorage.getItem("accessTokenPayload"): JsNull or a string
    query,      \* router.query.redirectOnLogin
    username,   \* useState, login.tsx line 12
    password,   \* useState, login.tsx line 11
    error,      \* useState, login.tsx line 13
    memo,       \* the useMemo cell of useUser, useUser.tsx line 19
    ret,        \* what the last call of useUser did
    view,       \* what the last render of Login produced
    calls,      \* each invocation of loginHandler: idle, pending (awaiting), done
    last,       \* the invocation of loginHandler that completed last
    effects     \* the side effects of that invocation, in program order

vars == <<window, cookie, storage, query, username, password, error,
          memo, ret, view, calls, last, effects>>

(***************************************************************************)
(* Bounds of the model.                                                    *)
(***************************************************************************)
MaxSubmits == 2     \* invocations of loginHandler in one run
MaxSub == 2         \* distinct user ids a payload may carry

(***************************************************************************)
(* JavaScript values.  One record shape for all of them: kind, the fields  *)
(* of a user payload (sub, name), and the text of a string.                *)
(***************************************************************************)
JsUndefined == [kind |-> "undefined", sub |-> 0, name |-> "", text |-> <<>>]
JsNull == [kind |-> "null", sub |-> 0, name |-> "", text |-> <<>>]
JsFalse == [kind |-> "false", sub |-> 0, name |-> "", text |-> <<>>]
JsStr(t) == [kind |-> "string", sub |-> 0, name |-> "", text |-> t]
JsObj(s, n) == [kind |-> "object", sub |-> s, name |-> n, text |-> <<>>]
\* A thrown SyntaxError, as the outcome of JSON.parse.
JsSyntaxError == [kind |-> "SyntaxError", sub |-> 0, name |-> "", text |-> <<>>]

Names == {"alice"}
\* auth.accessTokenPayload: the server-issued payload, an object.
Payloads == {JsObj(s, n) : s \in 1..MaxSub, n \in Names}

Quote(s) == "\"" \o s \o "\""

\* JSON.stringify(value): a JsStr, or JsUndefined for undefined.
JSONstringify(v) ==
    CASE v.kind = "object" ->
            JsStr(<<"{", Quote("sub"), ":", ToString(v.sub), ",",
                    Quote("name"), ":", Quote(v.name), "}">>)
      [] v.kind = "null" -> JsStr(<<"null">>)
      [] v.kind = "false" -> JsStr(<<"false">>)
      [] OTHER -> JsUndefined

\* String(value): the coercion setItem and JSON.parse apply to a non-string.
ToJsString(v) ==
    CASE v.kind = "string" -> v
      [] v.kind = "null" -> JsStr(<<"null">>)
      [] v.kind = "false" -> JsStr(<<"false">>)
      [] v.kind = "undefined" -> JsStr(<<"undefined">>)
      [] OTHER -> JsStr(<<"[object Object]">>)

IsNumberToken(tok) == \E n \in 0..(MaxSub + 1) : ToString(n) = tok
NumberOf(tok) == CHOOSE n \in 0..(MaxSub + 1) : ToString(n) = tok
IsStringToken(tok) == \E n \in Names \cup {"sub", "name"} : Quote(n) = tok
StringOf(tok) == CHOOSE n \in Names \cup {"sub", "name"} : Quote(n) = tok

\* JSON.parse(value): the value the text denotes, or JsSyntaxError (thrown).
\* The object grammar is that of a user payload, {"sub":N,"name":S}.
JSONparse(v) ==
    LET t == ToJsString(v).text IN
    IF t = <<"null">> THEN JsNull
    ELSE IF t = <<"false">> THEN JsFalse
    ELSE IF /\ Len(t) = 9
            /\ t[1] = "{" /\ t[2] = Quote("sub") /\ t[3] = ":"
            /\ IsNumberToken(t[4]) /\ t[5] = ","
            /\ t[6] = Quote("name") /\ t[7] = ":"
            /\ IsStringToken(t[8]) /\ t[9] = "}"
         THEN JsObj(NumberOf(t[4]), StringOf(t[8]))
    ELSE JsSyntaxError

\* !value
Falsy(v) == \/ v.kind \in {"undefined", "null", "false"}
            \/ v.kind = "string" /\ v.text = <<>>

(***************************************************************************)
(* Cookies.  A cookie value is a JsStr of at most one token.               *)
(***************************************************************************)
\* cookie.parse(str)[name]: the first pair named `name`, else undefined.
RECURSIVE CookieLookup(_, _)
CookieLookup(jar, name) ==
    IF jar = <<>> THEN JsUndefined
    ELSE IF Head(jar)[1] = name
         THEN (IF Head(jar)[2] = "" THEN JsStr(<<>>) ELSE JsStr(<<Head(jar)[2]>>))
    ELSE CookieLookup(Tail(jar), name)

CookieJars ==
    { <<>>,
      <<<<"theme", "dark">>>>,
      <<<<"loggedIn", "">>>>,
      <<<<"loggedIn", "true">>>>,
      <<<<"theme", "dark">>, <<"loggedIn", "true">>>> }

\* What local storage may hold under "accessTokenPayload" before the page runs.
StoredValues ==
    {JsNull, JsStr(<<"{">>), JsStr(<<"undefined">>)}
        \cup {JSONstringify(p) : p \in Payloads}

(***************************************************************************)
(* useUser.                                                                *)
(***************************************************************************)
MemoUnset == [kind |-> "unset", sub |-> 0, name |-> "", text |-> <<>>]

\* A useMemo that runs its callback on every render (no dependency list).
UseMemoEveryRender(cell, win, ls) == IF win THEN ls ELSE JsFalse

\* useMemo(() => typeof window !== "undefined" && localStorage.getItem(..), [])
\* The callback runs on the component's first render only.
UseMemo(cell, win, ls) ==
    IF cell.kind = "unset" THEN (IF win THEN ls ELSE JsFalse) ELSE cell

Returned(user, loggedIn, reads) ==
    [status |-> "returned", user |-> user, loggedIn |-> loggedIn, reads |-> reads]
Threw(reads) ==
    [status |-> "threw", user |-> JsNull, loggedIn |-> FALSE, reads |-> reads]
NotCalled ==
    [status |-> "none", user |-> JsNull, loggedIn |-> FALSE, reads |-> {}]

\* useUser with the cookie test left out.
UseUserNoCookieTest(cell, win, doc, ls) ==
    LET user == UseMemo(cell, win, ls)
        memoReads == IF cell.kind = "unset" /\ win THEN {"localStorage"} ELSE {}
        parsed == JSONparse(user)
    IN  IF win
        THEN IF parsed.kind = "SyntaxError"
             THEN Threw(memoReads \cup {"document.cookie"})
             ELSE Returned(parsed, TRUE, memoReads \cup {"document.cookie"})
        ELSE Returned(JsNull, FALSE, memoReads)

\* useUser with the window test of line 25 left out.
UseUserNoWindowTest(cell, win, doc, ls) ==
    LET user == UseMemo(cell, win, ls)
        memoReads == IF cell.kind = "unset" /\ win THEN {"localStorage"} ELSE {}
        parsed == JSONparse(user)
    IN  IF Falsy(CookieLookup(doc, "loggedIn"))
        THEN Returned(JsNull, FALSE, memoReads \cup {"document.cookie"})
        ELSE IF parsed.kind = "SyntaxError"
             THEN Threw(memoReads \cup {"document.cookie"})
             ELSE Returned(parsed, TRUE, memoReads \cup {"document.cookie"})

\* useUser(): status "returned" with the UserState, or "threw" (JSON.parse);
\* reads are the ambient stores the call read.
UseUser(cell, win, doc, ls) ==
    LET user == UseMemo(cell, win, ls)
        memoReads == IF cell.kind = "unset" /\ win THEN {"localStorage"} ELSE {}
        parsed == JSONparse(user)
    IN  IF win
        THEN IF Falsy(CookieLookup(doc, "loggedIn"))
             THEN Returned(JsNull, FALSE, memoReads \cup {"document.cookie"})
             ELSE IF parsed.kind = "SyntaxError"
                  THEN Threw(memoReads \cup {"document.cookie"})
                  ELSE Returned(parsed, TRUE, memoReads \cup {"document.cookie"})
        ELSE Returned(JsNull, FALSE, memoReads)

(***************************************************************************)
(* The Login page.                                                         *)
(***************************************************************************)
JsTrue == [kind |-> "true", sub |-> 0, name |-> "", text |-> <<>>]
JsArray == [kind |-> "array", sub |-> 0, name |-> "", text |-> <<>>]

FallbackMessage == JsStr(<<"An unexpected error occurred.">>)
ConnectMessage == JsStr(<<"Failed to connect to the server. Please try again.">>)

\* router.query.redirectOnLogin: absent, a string, or an array (a repeated
\* parameter).
Queries == {JsUndefined, JsStr(<<"/dashboard">>), JsArray}

\* What postData may throw.
Errors == {JsStr(<<"TypeError: Failed to fetch">>),
           JsStr(<<"SyntaxError: Unexpected token <">>)}

Response(kind, err, flag, description, user) ==
    [kind |-> kind, err |-> err, error |-> flag,
     errorDescription |-> description, user |-> user]

\* What awaiting postData yields: a rejection with err, or the APIResponse.
Responses ==
    {Response("throw", e, JsUndefined, JsUndefined, JsUndefined) : e \in Errors}
      \cup {Response("json", JsUndefined, JsTrue, d, JsUndefined) :
                d \in {JsUndefined, JsStr(<<>>), JsStr(<<"Invalid credentials">>)}}
      \cup {Response("json", JsUndefined, JsFalse, JsUndefined, u) :
                u \in Payloads \cup {JsUndefined}}
      \cup {Response("json", JsUndefined, JsUndefined, JsUndefined, JsObj(1, "alice"))}

NoResponse == Response("none", JsUndefined, JsUndefined, JsUndefined, JsUndefined)

Effect(op, arg) == [op |-> op, arg |-> arg]

\* A redirect that takes whatever the query holds.
RedirectTargetUnchecked(q) == IF q.kind = "undefined" THEN JsStr(<<"/">>) ELSE q

\* login.tsx lines 38-41
RedirectTarget(q) == IF q.kind = "string" THEN q ELSE JsStr(<<"/">>)

\* A message chosen with ?? in place of ||.
ErrorMessageNullish(resp) ==
    IF resp.errorDescription.kind \in {"undefined", "null"}
    THEN FallbackMessage ELSE resp.errorDescription

\* login.tsx line 32
ErrorMessage(resp) ==
    IF Falsy(resp.errorDescription) THEN FallbackMessage ELSE resp.errorDescription

\* loginHandler navigating before it writes.
HandlerEffectsPushFirst(resp, q) ==
    IF resp.kind = "throw"
    THEN <<Effect("setError", ConnectMessage), Effect("console.error", resp.err)>>
    ELSE IF resp.error = JsTrue
    THEN <<Effect("setError", ErrorMessage(resp))>>
    ELSE <<Effect("router.push", RedirectTarget(q)),
           Effect("setItem", ToJsString(JSONstringify(resp.user)))>>

\* loginHandler writing the payload before it looks at the error flag.
HandlerEffectsWriteFirst(resp, q) ==
    IF resp.kind = "throw"
    THEN <<Effect("setError", ConnectMessage), Effect("console.error", resp.err)>>
    ELSE IF resp.error = JsTrue
    THEN <<Effect("setItem", ToJsString(JSONstringify(resp.user))),
           Effect("setError", ErrorMessage(resp))>>
    ELSE <<Effect("setItem", ToJsString(JSONstringify(resp.user))),
           Effect("router.push", RedirectTarget(q))>>

\* loginHandler without its catch clause.
HandlerEffectsNoCatch(resp, q) ==
    IF resp.kind = "throw"
    THEN <<Effect("throw", resp.err)>>
    ELSE IF resp.error = JsTrue
    THEN <<Effect("setError", ErrorMessage(resp))>>
    ELSE <<Effect("setItem", ToJsString(JSONstringify(resp.user))),
           Effect("router.push", RedirectTarget(q))>>

\* The side effects of loginHandler after the await, in program order
\* (login.tsx lines 31-47).  An effect "throw" would be an exception that
\* leaves the handler.
HandlerEffects(resp, q) ==
    IF resp.kind = "throw"
    THEN <<Effect("setError", ConnectMessage), Effect("console.error", resp.err)>>
    ELSE IF resp.error = JsTrue
    THEN <<Effect("setError", ErrorMessage(resp))>>
    ELSE <<Effect("setItem", ToJsString(JSONstringify(resp.user))),
           Effect("router.push", RedirectTarget(q))>>

RECURSIVE ApplyEffects(_, _, _)
\* The value of the cell that `op` ("setError", "setItem") sets, after effs.
ApplyEffects(effs, op, old) ==
    IF effs = <<>> THEN old
    ELSE ApplyEffects(Tail(effs), op,
                      IF Head(effs).op = op THEN Head(effs).arg ELSE old)

Ops(effs) == {effs[k].op : k \in 1..Len(effs)}

Ids == 1..MaxSubmits
Idle == [state |-> "idle", username |-> "", password |-> ""]
InFlight == {i \in Ids : calls[i].state = "pending"}

Init ==
    /\ window \in BOOLEAN
    /\ cookie \in CookieJars
    /\ storage \in StoredValues
    /\ query \in Queries
    /\ username = ""
    /\ password = ""
    /\ error = JsNull
    /\ memo = MemoUnset
    /\ ret = NotCalled
    /\ view = "none"
    /\ calls = [i \in Ids |-> Idle]
    /\ last = [id |-> 0, response |-> NoResponse]
    /\ effects = <<>>

\* One render of Login: login.tsx lines 10-22, and the form of line 50 when
\* the user is not logged in.  A throw of useUser ends the component.
Render ==
    /\ view # "crash"
    /\ LET r == UseUser(memo, window, cookie, storage) IN
        /\ ret' = r
        /\ memo' = UseMemo(memo, window, storage)
        /\ view' = IF r.status = "threw" THEN "crash"
                   ELSE IF r.loggedIn THEN "redirect"
                   ELSE "form"
    /\ UNCHANGED <<window, cookie, storage, query, username, password, error,
                   calls, last, effects>>

\* onChange of the inputs: login.tsx lines 75 and 90.
ChangeUsername ==
    /\ window /\ view = "form"
    /\ \E v \in {"", "alice"} : v # username /\ username' = v
    /\ UNCHANGED <<window, cookie, storage, query, password, error,
                   memo, ret, view, calls, last, effects>>

ChangePassword ==
    /\ window /\ view = "form"
    /\ \E v \in {"", "secret"} : v # password /\ password' = v
    /\ UNCHANGED <<window, cookie, storage, query, username, error,
                   memo, ret, view, calls, last, effects>>

\* onSubmit and loginHandler up to its await: login.tsx lines 57-60, 24-30.
\* The inputs are `required`, so the browser submits only non-empty fields.
\* Nothing in the handler or the form looks at the requests in flight.
Submit ==
    /\ window /\ view = "form"
    /\ username # "" /\ password # ""
    /\ \E i \in Ids :
        /\ calls[i].state = "idle"
        /\ \A j \in Ids : j < i => calls[j].state # "idle"
        /\ calls' = [calls EXCEPT ![i] = [state |-> "pending",
                                           username |-> username,
                                           password |-> password]]
    /\ UNCHANGED <<window, cookie, storage, query, username, password, error,
                   memo, ret, view, last, effects>>

\* loginHandler from the await on: login.tsx lines 27-47.
Settle(i, resp) ==
    /\ calls[i].state = "pending"
    /\ LET effs == HandlerEffects(resp, query) IN
        /\ effects' = effs
        /\ error' = ApplyEffects(effs, "setError", error)
        /\ storage' = ApplyEffects(effs, "setItem", storage)
        /\ calls' = [calls EXCEPT ![i].state =
                        IF "throw" \in Ops(effs) THEN "rejected" ELSE "fulfilled"]
    /\ last' = [id |-> i, response |-> resp]
    /\ UNCHANGED <<window, cookie, query, username, password, memo, ret, view>>

\* The server or the browser changes the cookies (Set-Cookie, expiry).
SetCookie ==
    /\ \E jar \in CookieJars : jar # cookie /\ cookie' = jar
    /\ UNCHANGED <<window, storage, query, username, password, error,
                   memo, ret, view, calls, last, effects>>

Next ==
    \/ Render
    \/ ChangeUsername
    \/ ChangePassword
    \/ Submit
    \/ \E i \in Ids, resp \in Responses : Settle(i, resp)
    \/ SetCookie

Spec == Init /\ [][Next]_vars

(***************************************************************************)
(* Properties.                                                             *)
(***************************************************************************)
CookieSet == ~Falsy(CookieLookup(cookie, "loggedIn"))
\* How the invocation of loginHandler that completed last was answered.
LastSucceeded == last.id # 0 /\ last.response.kind = "json"
                    /\ last.response.error # JsTrue
LastServerError == last.id # 0 /\ last.response.kind = "json"
                    /\ last.response.error = JsTrue
LastRejected == last.id # 0 /\ last.response.kind = "throw"

\* C1: a call of useUser in a browser with the "loggedIn" cookie absent or
\* empty returns {user: null, loggedIn: false}, whatever local storage holds.
C1_LoggedOutWithoutCookie ==
    [][(Render /\ window /\ ~CookieSet)
         => (ret'.status = "returned" /\ ret'.user = JsNull
                /\ ret'.loggedIn = FALSE)]_vars

\* C1 happens: the hook has returned LoggedOut in a browser without the cookie
\* while local storage held a valid payload, and while it held malformed text.
C1_Witness ==
    /\ window /\ ~CookieSet
    /\ ret.status = "returned" /\ ~ret.loggedIn
    /\ "document.cookie" \in ret.reads
    /\ memo = storage
    /\ storage \in {JSONstringify(p) : p \in Payloads} \cup {JsStr(<<"{">>)}

\* C2: after loginHandler completes on a successful response carrying payload
\* P, local storage holds JSON.stringify(P), from which JSON.parse gives P
\* back, and the write came before the navigation.
C2_PayloadStoredBeforeNavigation ==
    (LastSucceeded /\ last.response.user \in Payloads) =>
        /\ storage = JSONstringify(last.response.user)
        /\ JSONparse(storage) = last.response.user
        /\ Len(effects) = 2
        /\ effects[1] = Effect("setItem", storage)
        /\ effects[2].op = "router.push"

C2_Witness ==
    /\ LastSucceeded /\ last.response.user = JsObj(2, "alice")
    /\ memo # storage
    /\ storage = JsStr(<<"{", "\"sub\"", ":", "2", ",", "\"name\"", ":",
                         "\"alice\"", "}">>)

\* C3: every invocation of loginHandler ends either with the payload written
\* and navigation triggered, or with an error message set, never both and
\* never neither; on the two error paths local storage is left as it was and
\* nothing navigates.
C3_ExactlyOneOutcome ==
    [][\A i \in Ids : (calls[i].state = "pending" /\ calls'[i].state # "pending") =>
        LET resp == last'.response
            done == Ops(effects')
            success == {"setItem", "router.push"} \subseteq done
            failure == "setError" \in done
        IN  /\ last'.id = i
            /\ success # failure
            /\ failure => /\ done \cap {"setItem", "router.push"} = {}
                          /\ storage' = storage
            /\ success => error' = error
            /\ (resp.kind = "throw" \/ resp.error = JsTrue) => failure
            /\ calls'[i].state = "fulfilled"]_vars

\* C3 happens: one invocation failed and a later one succeeded in the same
\* run.
C3_Witness ==
    /\ LastSucceeded /\ last.id = 2
    /\ error # JsNull
    /\ Ops(effects) = {"setItem", "router.push"}

\* C4: whatever useUser returns has loggedIn true iff user is not null.
C4_TagAgreesWithPayload ==
    ret.status = "returned" => (ret.loggedIn <=> ret.user # JsNull)

\* C5: on a successful login the navigation target is the query parameter
\* redirectOnLogin when it is a string, and "/" when it is absent or an array.
C5_RedirectTarget ==
    LastSucceeded =>
        /\ "router.push" \in Ops(effects)
        /\ \A k \in 1..Len(effects) : effects[k].op = "router.push" =>
            /\ query = JsStr(<<"/dashboard">>)
                    => effects[k].arg = JsStr(<<"/dashboard">>)
            /\ query \in {JsUndefined, JsArray} => effects[k].arg = JsStr(<<"/">>)

C5_Witness ==
    /\ LastSucceeded /\ query = JsArray
    /\ effects[2] = Effect("router.push", JsStr(<<"/">>))

\* C6: after a response with error === true the message displayed is the
\* server's errorDescription, or the generic fallback when none was supplied
\* or the one supplied is the empty string.
C6_ServerErrorMessage ==
    LastServerError =>
        /\ effects = <<Effect("setError", error)>>
        /\ last.response.errorDescription = JsStr(<<"Invalid credentials">>)
                => error = JsStr(<<"Invalid credentials">>)
        /\ last.response.errorDescription \in {JsUndefined, JsStr(<<>>)}
                => error = JsStr(<<"An unexpected error occurred.">>)

C6_Witness ==
    /\ LastServerError
    /\ last.response.errorDescription = JsStr(<<>>)
    /\ error = FallbackMessage

\* C7: when the login request throws, the message displayed is the fixed
\* connection-failure string, the error thrown is logged to the console, and
\* no exception leaves loginHandler.
C7_TransportFailure ==
    LastRejected =>
        /\ error = JsStr(<<"Failed to connect to the server. Please try again.">>)
        /\ effects = <<Effect("setError", error),
                       Effect("console.error", last.response.err)>>
        /\ calls[last.id].state = "fulfilled"

C7_Witness ==
    /\ LastRejected
    /\ last.response.err = JsStr(<<"TypeError: Failed to fetch">>)
    /\ error = ConnectMessage
    /\ calls[last.id].state = "fulfilled"

\* C8: without a window useUser returns {user: null, loggedIn: false} and
\* reads neither the cookies nor local storage.
C8_LoggedOutWithoutWindow ==
    (~window /\ ret.status # "none") =>
        /\ ret = Returned(JsNull, FALSE, {})
        /\ memo = JsFalse

\* C8 happens: the hook ran without a window while the cookie was set and
\* local storage held a payload.
C8_Witness ==
    /\ ~window /\ ret.status = "returned"
    /\ CookieSet
    /\ storage \in {JSONstringify(p) : p \in Payloads}

\* C9 as stated: a call of useUser in a browser with the cookie set returns
\* LoggedIn with the parse of what local storage holds now (when that parses).
C9_ReturnsCurrentStorage ==
    [][(Render /\ window /\ CookieSet /\ JSONparse(storage).kind # "SyntaxError")
         => (ret'.status = "returned" /\ ret'.loggedIn
                /\ ret'.user = JSONparse(storage))]_vars

\* C9 amended: a call of useUser in a browser with the cookie set parses the
\* string that the component's first call read from local storage (kept in
\* the useMemo cell; local storage is read on that first call only): it
\* returns LoggedIn with that parse, or throws when the string is malformed.
C9_ReturnsMemoizedStorage ==
    [][(Render /\ window /\ CookieSet) =>
        LET first == IF memo.kind = "unset" THEN storage ELSE memo
        IN  /\ memo' = first
            /\ ("localStorage" \in ret'.reads) <=> (memo.kind = "unset")
            /\ IF JSONparse(first).kind = "SyntaxError"
               THEN ret'.status = "threw"
               ELSE /\ ret'.status = "returned" /\ ret'.loggedIn
                    /\ ret'.user = JSONparse(first)]_vars

\* C9 happens: a later call returned LoggedIn with the parse of the first
\* read after loginHandler had written another value.
C9_Witness ==
    /\ window /\ CookieSet /\ LastSucceeded
    /\ ret.status = "returned" /\ ret.loggedIn
    /\ ret.reads = {"document.cookie"}
    /\ ret.user = JSONparse(memo)
    /\ storage # memo
    /\ JSONparse(storage) # ret.user

\* C10: at most one login request is in flight at any time.
C10_OneRequestInFlight == Cardinality(InFlight) <= 1

=============================================================================
